---- MODULE Spec2Model ----
(***************************************************************************)
(* Model of hooks/pre_commit_docs_check.py: the pre-commit documentation   *)
(* gate.  A Python str is a sequence of one-character strings, so that     *)
(* split, strip, lower, slicing, substring tests and the two regular       *)
(* expressions are computed as the code computes them.  A literal piece of *)
(* a message that is not ASCII in the source (its Korean text and emoji)   *)
(* is written as one bracketed element such as "[WARN]"; paths, feature    *)
(* names and tool output keep their characters.                            *)
(***************************************************************************)
EXTENDS Integers, Sequences, FiniteSets, TLC

(* ------------------------------------------------------------------ *)
(* Python str operations                                               *)
(* ------------------------------------------------------------------ *)

UpperChars == <<"A", "B", "C", "D", "E", "F", "G", "H", "I", "J", "K", "L", "M",
                "N", "O", "P", "Q", "R", "S", "T", "U", "V", "W", "X", "Y", "Z">>

LowerChars == <<"a", "b", "c", "d", "e", "f", "g", "h", "i", "j", "k", "l", "m",
                "n", "o", "p", "q", "r", "s", "t", "u", "v", "w", "x", "y", "z">>

DigitChars == <<"0", "1", "2", "3", "4", "5", "6", "7", "8", "9">>

Range(s) == {s[i] : i \in 1..Len(s)}

IsUpper(c) == c \in Range(UpperChars)

IsLower(c) == c \in Range(LowerChars)

\* \w of the re module: a letter, a digit or the underscore
IsWordChar(c) == IsUpper(c) \/ IsLower(c) \/ c \in Range(DigitChars) \/ c = "_"

\* \s of the re module and the characters str.strip() removes
IsSpace(c) == c \in {" ", "\t", "\n", "\r", "\f"}

LowerChar(c) ==
    IF IsUpper(c) THEN LowerChars[CHOOSE i \in 1..26 : UpperChars[i] = c] ELSE c

UpperChar(c) ==
    IF IsLower(c) THEN UpperChars[CHOOSE i \in 1..26 : LowerChars[i] = c] ELSE c

\* a function with domain 1..n, as the sequence it is
AsTuple(f) == SubSeq(f, 1, Len(f))

\* str.lower()
lower(s) == AsTuple([i \in 1..Len(s) |-> LowerChar(s[i])])

\* str.capitalize(): first character upper-cased, the rest lower-cased
capitalize(s) ==
    AsTuple([i \in 1..Len(s) |-> IF i = 1 THEN UpperChar(s[i]) ELSE LowerChar(s[i])])

\* s[:n]
Prefix(s, n) == SubSeq(s, 1, IF Len(s) < n THEN Len(s) ELSE n)

\* s.startswith(p)
startswith(s, p) == Len(p) <= Len(s) /\ SubSeq(s, 1, Len(p)) = p

\* s.endswith(p)
endswith(s, p) == Len(p) <= Len(s) /\ SubSeq(s, Len(s) - Len(p) + 1, Len(s)) = p

\* sub in s
contains(s, sub) ==
    \E i \in 0..(Len(s) - Len(sub)) : SubSeq(s, i + 1, i + Len(sub)) = sub

RECURSIVE FirstNonSpace(_, _)
\* the first index from k on of a character that is not white space, or Len(s) + 1
FirstNonSpace(s, k) ==
    IF k > Len(s) \/ ~IsSpace(s[k]) THEN k ELSE FirstNonSpace(s, k + 1)

RECURSIVE LastNonSpace(_, _)
\* the last index up to k of a character that is not white space, or 0
LastNonSpace(s, k) ==
    IF k < 1 \/ ~IsSpace(s[k]) THEN k ELSE LastNonSpace(s, k - 1)

\* s.strip()
strip(s) == SubSeq(s, FirstNonSpace(s, 1), LastNonSpace(s, Len(s)))

RECURSIVE Find(_, _, _)
\* the first index from k on at which character c stands, or 0
Find(s, c, k) ==
    IF k > Len(s) THEN 0 ELSE IF s[k] = c THEN k ELSE Find(s, c, k + 1)

RECURSIVE split(_, _)
\* s.split(sep) for a one-character separator: never an empty list
split(s, sep) ==
    LET c == Find(s, sep, 1)
    IN  IF c = 0 THEN <<s>>
        ELSE <<SubSeq(s, 1, c - 1)>> \o split(SubSeq(s, c + 1, Len(s)), sep)

RECURSIVE join(_, _)
\* sep.join(items)
join(sep, items) ==
    IF items = <<>> THEN <<>>
    ELSE IF Len(items) = 1 THEN items[1]
    ELSE items[1] \o sep \o join(sep, Tail(items))

\* str(n) for a natural number
RECURSIVE str(_)
str(n) == IF n < 10 THEN <<DigitChars[n + 1]>> ELSE str(n \div 10) \o <<DigitChars[(n % 10) + 1]>>

\* None; like "", it is falsy, and no function of the hook returns ""
None == <<>>

(* ------------------------------------------------------------------ *)
(* Literals of the hook                                                *)
(* ------------------------------------------------------------------ *)

Slash == <<"/">>

DocsDir == <<"s", "r", "c", "/", "d", "o", "c", "s">>

CatalogName == <<"E", "R", "R", "O", "R", "_", "M", "E", "S", "S", "A", "G", "E", "S", ".", "m", "d">>

Gradlew == <<"g", "r", "a", "d", "l", "e", "w">>

Pom == <<"p", "o", "m", ".", "x", "m", "l">>

\* stands for the suffix "_<feature specification>.md" of lines 123-127
SpecSuffix == <<"_", "s", "p", "e", "c", ".", "m", "d">>

MdSuffix == <<".", "m", "d">>

LayerNames ==
    { <<"c", "o", "n", "t", "r", "o", "l", "l", "e", "r">>,
      <<"s", "e", "r", "v", "i", "c", "e">>,
      <<"r", "e", "p", "o", "s", "i", "t", "o", "r", "y">>,
      <<"d", "t", "o">>,
      <<"e", "n", "t", "i", "t", "y">>,
      <<"m", "a", "p", "p", "e", "r">> }

\* timeout=90 of both subprocess.run calls of check_build
BuildTimeout == 90

\* result.stderr[:300]
StderrLimit == 300

\* os.path.join(a, b), both relative and non-empty
path_join(a, b) == a \o Slash \o b

(* ------------------------------------------------------------------ *)
(* is_git_commit: re.search(r'\bgit\s+commit\b', command)              *)
(* ------------------------------------------------------------------ *)

\* \b between s[k] and s[k+1] (k = 0: the start, k = Len(s): the end)
WordBoundary(s, k) ==
    (k >= 1 /\ IsWordChar(s[k])) # (k + 1 <= Len(s) /\ IsWordChar(s[k + 1]))

is_git_commit(command) ==
    \E p \in 1..Len(command) : \E q \in (p + 4)..(Len(command) - 5) :
        /\ WordBoundary(command, p - 1)
        /\ SubSeq(command, p, p + 2) = <<"g", "i", "t">>
        /\ \A k \in (p + 3)..(q - 1) : IsSpace(command[k])
        /\ SubSeq(command, q, q + 5) = <<"c", "o", "m", "m", "i", "t">>
        /\ WordBoundary(command, q + 5)

(* ------------------------------------------------------------------ *)
(* get_staged_files                                                    *)
(* ------------------------------------------------------------------ *)

NonEmptyStripped(line) == strip(line) # <<>>

StripEach(lines) == AsTuple([i \in 1..Len(lines) |-> strip(lines[i])])

\* git = [returncode, stdout]: what "git diff --cached --name-only" answered
get_staged_files(git) ==
    IF git.returncode # 0 THEN <<>>
    ELSE StripEach(SelectSeq(split(strip(git.stdout), "\n"), NonEmptyStripped))

(* ------------------------------------------------------------------ *)
(* main, lines 183-188: the Java source changes among the staged files *)
(* ------------------------------------------------------------------ *)

IsJavaChange(f) ==
    /\ endswith(f, <<".", "j", "a", "v", "a">>)
    /\ contains(f, <<"s", "r", "c", "/", "m", "a", "i", "n">>)
    /\ ~contains(lower(f), <<"t", "e", "s", "t">>)

\* the filter without its exclusion of test code
JavaChanges_KeepTests(staged) ==
    SelectSeq(staged, LAMBDA f : /\ endswith(f, <<".", "j", "a", "v", "a">>)
                                 /\ contains(f, <<"s", "r", "c", "/", "m", "a", "i", "n">>))

JavaChanges(staged) == SelectSeq(staged, IsJavaChange)

(* ------------------------------------------------------------------ *)
(* extract_feature_names                                               *)
(* ------------------------------------------------------------------ *)

\* Path(f).name: the last component, empty components dropped
PathName(f) ==
    LET comps == SelectSeq(split(f, "/"), LAMBDA c : c # <<>>)
    IN  IF comps = <<>> THEN <<>> ELSE comps[Len(comps)]

\* Path(f).stem: the name without its last suffix
PathStem(f) ==
    LET name == PathName(f)
        dots == {i \in 1..Len(name) : name[i] = "."}
    IN  IF dots = {} THEN name
        ELSE LET i == CHOOSE d \in dots : \A e \in dots : e <= d
             IN  IF 1 < i /\ i < Len(name) THEN SubSeq(name, 1, i - 1) ELSE name

\* re.match(r'^([A-Z][a-z]+)', filename): group 1, or None
LeadingCapWord(filename) ==
    IF Len(filename) >= 2 /\ IsUpper(filename[1]) /\ IsLower(filename[2])
    THEN LET ends == {k \in 2..Len(filename) : \A j \in 2..k : IsLower(filename[j])}
         IN  SubSeq(filename, 1, CHOOSE k \in ends : \A j \in ends : j <= k)
    ELSE None

\* one iteration of the loop over java_files: the names the file adds
FeatureOfFile(f) ==
    LET parts == split(f, "/")
        hits == {i \in 1..Len(parts) : parts[i] \in LayerNames}
    IN  IF hits # {}
        THEN LET i == CHOOSE h \in hits : \A g \in hits : h <= g
             IN  IF i > 1 THEN {lower(parts[i - 1])} ELSE {}
        ELSE LET m == LeadingCapWord(PathStem(f))
             IN  IF m # None THEN {lower(m)} ELSE {}

extract_feature_names(java_files) ==
    UNION {FeatureOfFile(java_files[i]) : i \in 1..Len(java_files)}

(* ------------------------------------------------------------------ *)
(* check_build                                                         *)
(* ------------------------------------------------------------------ *)

\* what subprocess.run ends with: the value it returns, or TimeoutExpired
Completed(run) == run.duration <= BuildTimeout

BuildTool(fs_) ==
    IF Gradlew \in fs_ THEN "gradle" ELSE IF Pom \in fs_ THEN "maven" ELSE "none"

\* the message with the whole error stream
BuildFailedMsg_Untruncated(tool, run) ==
    <<(IF tool = "gradle" THEN "[Gradle build failed:]" ELSE "[Maven build failed:]"), "\n">>
        \o run.stderr

BuildFailedMsg(tool, run) ==
    <<(IF tool = "gradle" THEN "[Gradle build failed:]" ELSE "[Maven build failed:]"), "\n">>
        \o Prefix(run.stderr, StderrLimit)

\* [raised, value]: raised when subprocess.run raises TimeoutExpired, which
\* check_build does not catch; otherwise value is what check_build returns
check_build(fs_, run) ==
    LET tool == BuildTool(fs_)
    IN  IF tool = "none" THEN [raised |-> FALSE, value |-> None]
        ELSE IF ~Completed(run) THEN [raised |-> TRUE, value |-> None]
        ELSE IF run.returncode # 0
             THEN [raised |-> FALSE, value |-> BuildFailedMsg(tool, run)]
             ELSE [raised |-> FALSE, value |-> None]

(* ------------------------------------------------------------------ *)
(* check_docs                                                          *)
(* ------------------------------------------------------------------ *)

CatalogPath == path_join(DocsDir, CatalogName)

SpecPath(feature) == path_join(DocsDir, feature \o SpecSuffix)

ArchPath(feature) ==
    path_join(path_join(DocsDir, <<"a", "r", "c", "h", "i", "t", "e", "c", "t", "u", "r", "e">>),
              feature \o MdSuffix)

GuidePath(feature) ==
    path_join(path_join(DocsDir, <<"u", "s", "e", "r", "-", "g", "u", "i", "d", "e">>),
              feature \o MdSuffix)

CatalogMissingMsg ==
    <<"[PAGE]", " ">> \o CatalogName \o <<"[does not exist ->]", " ">> \o CatalogPath
        \o <<" ", "[must be created]">>

CatalogNotStagedMsg ==
    <<"[WARN]", " ">> \o CatalogName
        \o <<"[is not part of this commit; check whether new error codes are needed]">>

\* lines 109-115: the global layer
GlobalErrors(fs_, staged) ==
    IF CatalogPath \notin fs_ THEN <<CatalogMissingMsg>>
    ELSE IF ~\E i \in 1..Len(staged) : contains(staged[i], CatalogName)
         THEN <<CatalogNotStagedMsg>>
         ELSE <<>>

\* the list with the specification looked up under the lower-case name only
MissingDocs_LowercaseOnly(fs_, feature) ==
    (IF SpecPath(feature) \notin fs_
     THEN <<<<"[  - feature specification:]", " ">> \o SpecPath(feature)>> ELSE <<>>)
    \o (IF ArchPath(feature) \notin fs_
        THEN <<<<"[  - architecture note:]", " ">> \o ArchPath(feature)>> ELSE <<>>)
    \o (IF GuidePath(feature) \notin fs_
        THEN <<<<"[  - user guide:]", " ">> \o GuidePath(feature)>> ELSE <<>>)

\* lines 119-137: the list missing of one feature
MissingDocs(fs_, feature) ==
    (IF SpecPath(feature) \notin fs_ /\ SpecPath(capitalize(feature)) \notin fs_
     THEN <<<<"[  - feature specification:]", " ">> \o SpecPath(feature)>> ELSE <<>>)
    \o (IF ArchPath(feature) \notin fs_
        THEN <<<<"[  - architecture note:]", " ">> \o ArchPath(feature)>> ELSE <<>>)
    \o (IF GuidePath(feature) \notin fs_
        THEN <<<<"[  - user guide:]", " ">> \o GuidePath(feature)>> ELSE <<>>)

FeatureMissingMsg(feature, missing) ==
    <<"[FOLDER]", " ", "[feature]", " ", "'">> \o feature
        \o <<"'", " ", "[documents missing:]", "\n">> \o join(<<"\n">>, missing)

\* lines 118-140: one iteration of the loop over feature_names
FeatureErrors(fs_, feature) ==
    LET missing == MissingDocs(fs_, feature)
    IN  IF missing # <<>> THEN <<FeatureMissingMsg(feature, missing)>> ELSE <<>>

RECURSIVE AllFeatureErrors(_, _)
AllFeatureErrors(fs_, order) ==
    IF order = <<>> THEN <<>>
    ELSE FeatureErrors(fs_, Head(order)) \o AllFeatureErrors(fs_, Tail(order))

\* order: the order in which the set feature_names is iterated
check_docs(fs_, order, staged) ==
    GlobalErrors(fs_, staged) \o AllFeatureErrors(fs_, order)

(* ------------------------------------------------------------------ *)
(* check_staged_docs                                                   *)
(* ------------------------------------------------------------------ *)

NoDocsStagedMsg ==
    <<"[WARN]", " ", "[no document under src/docs/ is part of this commit]", "\n",
      "[commit the documents together with the feature code]">>

IsDocFile(f) == startswith(f, DocsDir \o Slash)

\* the check with the documentation root taken as docs/
check_staged_docs_WrongRoot(staged) ==
    IF SelectSeq(staged, LAMBDA f : startswith(f, <<"d", "o", "c", "s", "/">>)) = <<>>
    THEN NoDocsStagedMsg ELSE None

check_staged_docs(staged) ==
    IF SelectSeq(staged, IsDocFile) = <<>> THEN NoDocsStagedMsg ELSE None

(* ------------------------------------------------------------------ *)
(* deny and the report of main                                         *)
(* ------------------------------------------------------------------ *)

Header(java, order) ==
    <<"[NO ENTRY]", " ", "[documentation checklist incomplete]", "\n", "[RULE]", "\n",
      "[changed Java files:]", " ">> \o str(Len(java)) \o <<"[files]", "\n",
      "[detected features:]", " ">>
        \o (IF order # <<>> THEN join(<<",", " ">>, order) ELSE <<"[extraction failed]">>)
        \o <<"\n", "[RULE]", "\n", "\n">>

Footer ==
    <<"\n", "\n", "[RULE]", "\n", "[write or update the documents, then commit again]", "\n",
      "[see the Feature Development Completion Checklist of CLAUDE.md]">>

\* the object deny() prints as JSON
DenyPayload(reason) ==
    [hookEventName |-> "PreToolUse", permissionDecision |-> "deny",
     permissionDecisionReason |-> reason]

(* ------------------------------------------------------------------ *)
(* The inputs of one invocation                                        *)
(* ------------------------------------------------------------------ *)

\* how many change groups one commit stages
MaxGroups == 3

\* the paths a commit may stage, in the order git lists them
StagedPool ==
    << <<"R", "E", "A", "D", "M", "E", ".", "m", "d">>,
       <<"s", "r", "c", "/", "d", "o", "c", "s", "/", "E", "R", "R", "O", "R", "_", "M", "E", "S", "S", "A", "G", "E", "S", ".", "m", "d">>,
       <<"s", "r", "c", "/", "d", "o", "c", "s", "/", "a", "r", "c", "h", "i", "t", "e", "c", "t", "u", "r", "e", "/", "a", "t", "t", ".", "m", "d">>,
       <<"s", "r", "c", "/", "d", "o", "c", "s", "/", "a", "t", "t", "_", "s", "p", "e", "c", ".", "m", "d">>,
       <<"s", "r", "c", "/", "d", "o", "c", "s", "/", "u", "s", "e", "r", "-", "g", "u", "i", "d", "e", "/", "a", "t", "t", ".", "m", "d">>,
       <<"s", "r", "c", "/", "m", "a", "i", "n", "/", "j", "a", "v", "a", "/", "P", "a", "y", "S", "v", "c", ".", "j", "a", "v", "a">>,
       <<"s", "r", "c", "/", "m", "a", "i", "n", "/", "j", "a", "v", "a", "/", "a", "t", "t", "/", "A", "t", "t", "T", "e", "s", "t", ".", "j", "a", "v", "a">>,
       <<"s", "r", "c", "/", "m", "a", "i", "n", "/", "j", "a", "v", "a", "/", "a", "t", "t", "/", "c", "o", "n", "t", "r", "o", "l", "l", "e", "r", "/", "A", "t", "t", "C", "t", "l", ".", "j", "a", "v", "a">>,
       <<"s", "r", "c", "/", "m", "a", "i", "n", "/", "j", "a", "v", "a", "/", "u", "t", "i", "l", ".", "j", "a", "v", "a">> >>

\* changes staged together, as indices of StagedPool: the read-me, the error
\* catalog, the three documents of feature att, and four Java files
ChangeGroups == {{1}, {2}, {3, 4, 5}, {6}, {7}, {8}, {9}}

RECURSIVE StdoutOf(_, _)
\* the output of git for the staged paths idx: one line per path, from path k on
StdoutOf(idx, k) ==
    IF k > Len(StagedPool) THEN <<>>
    ELSE (IF k \in idx THEN StagedPool[k] \o <<"\n">> ELSE <<>>) \o StdoutOf(idx, k + 1)

\* git succeeds and lists the staged paths, or fails (not a repository)
GitPool ==
    {[returncode |-> 0, stdout |-> StdoutOf(UNION G, 1)] :
        G \in {H \in SUBSET ChangeGroups : Cardinality(H) <= MaxGroups}}
    \cup {[returncode |-> 128, stdout |-> <<>>]}

FeatAtt == <<"a", "t", "t">>

FeatPay == <<"p", "a", "y">>

AttDocs == {SpecPath(FeatAtt), SpecPath(capitalize(FeatAtt)), ArchPath(FeatAtt), GuidePath(FeatAtt)}

PayDocs == {SpecPath(FeatPay), ArchPath(FeatPay), GuidePath(FeatPay)}

\* the files of the project directory the hook may look at
FsPool ==
    {tools \cup docs \cup pay :
        tools \in SUBSET {Gradlew, Pom},
        docs \in SUBSET ({CatalogPath} \cup AttDocs),
        pay \in {{}, PayDocs}}

ShortStderr == <<"e", "r", "r">>

\* one character longer than the slice of check_build keeps
LongStderr == [i \in 1..(StderrLimit + 1) |-> IF i <= StderrLimit THEN "e" ELSE "Z"]

NoRun == [returncode |-> 0, stderr |-> <<>>, duration |-> 0]

\* how the build tool ends: success, failure with a short or a long error
\* stream, or not within the time limit
RunPool ==
    { [returncode |-> 0, stderr |-> <<>>, duration |-> 1],
      [returncode |-> 1, stderr |-> ShortStderr, duration |-> 1],
      [returncode |-> 1, stderr |-> AsTuple(LongStderr), duration |-> 1],
      [returncode |-> 0, stderr |-> <<>>, duration |-> BuildTimeout + 1] }

\* the build tool runs only when its descriptor exists
RunsFor(fs_) == IF BuildTool(fs_) = "none" THEN {NoRun} ELSE RunPool

\* standard input: not JSON, JSON without a command, or JSON with a command
PayloadPool ==
    { [wellformed |-> FALSE, command |-> <<>>],
      [wellformed |-> TRUE, command |-> <<>>],
      [wellformed |-> TRUE, command |-> <<"g", "i", "t", " ", "s", "t", "a", "t", "u", "s">>],
      [wellformed |-> TRUE, command |-> <<"g", "i", "t", " ", "c", "o", "m", "m", "i", "t", " ", "-", "m", " ", "x">>] }

\* the orders in which a Python set of strings may be iterated
Orders(S) == {AsTuple(o) : o \in {f \in [1..Cardinality(S) -> S] : Range(f) = S}}

(* ------------------------------------------------------------------ *)
(* main as a state machine                                             *)
(* ------------------------------------------------------------------ *)

VARIABLES pc, payload, fs, git, staged_files, java_changes, build, feature_order,
          all_errors, output, exit_status, fault, ran

vars == <<pc, payload, fs, git, staged_files, java_changes, build, feature_order,
          all_errors, output, exit_status, fault, ran>>

NoGit == [returncode |-> 0, stdout |-> <<>>]

InitLocals ==
    /\ git = NoGit
    /\ staged_files = <<>>
    /\ java_changes = <<>>
    /\ build = NoRun
    /\ feature_order = <<>>
    /\ all_errors = <<>>
    /\ output = <<>>
    /\ exit_status = -1
    /\ fault = "none"
    /\ ran = {}

Init ==
    /\ pc = "start"
    /\ payload \in PayloadPool
    /\ fs \in FsPool
    /\ InitLocals

\* sys.exit(status)
Exit(status) ==
    /\ pc' = "exited"
    /\ exit_status' = status

\* lines 169-174: get_input and the command classifier
Start ==
    /\ pc = "start"
    /\ IF ~payload.wellformed THEN Exit(1)
       ELSE IF ~is_git_commit(payload.command) THEN Exit(0)
       ELSE pc' = "inspect" /\ UNCHANGED exit_status
    /\ UNCHANGED <<payload, fs, git, staged_files, java_changes, build, feature_order,
                   all_errors, output, fault, ran>>

\* lines 176-192: the staged files and the Java source changes among them
Inspect ==
    /\ pc = "inspect"
    /\ \E g \in GitPool :
        LET staged == get_staged_files(g)
            java == IF staged = <<>> THEN <<>> ELSE JavaChanges(staged)
        IN  /\ git' = g
            /\ ran' = ran \cup {"git"}
            /\ staged_files' = staged
            /\ java_changes' = java
            /\ IF java = <<>> THEN Exit(0) ELSE pc' = "verify" /\ UNCHANGED exit_status
    /\ UNCHANGED <<payload, fs, build, feature_order, all_errors, output, fault>>

\* lines 197-211: all_errors, unless check_build raises
AllErrors(fs_, staged, run, order) ==
    LET build_error == check_build(fs_, run).value
        staged_warning == check_staged_docs(staged)
    IN  (IF build_error # None THEN <<<<"[X]", " ">> \o build_error>> ELSE <<>>)
        \o (IF order # <<>> THEN check_docs(fs_, order, staged) ELSE <<>>)
        \o (IF staged_warning # None THEN <<staged_warning>> ELSE <<>>)

\* lines 214-228: what main prints
Report(java, order, errors) ==
    IF errors # <<>>
    THEN <<DenyPayload(Header(java, order) \o join(<<"\n", "\n">>, errors) \o Footer)>>
    ELSE <<>>

\* lines 194-231: the build, the features, the documents, the verdict
Verify ==
    /\ pc = "verify"
    /\ \E run \in RunsFor(fs) : \E order \in Orders(extract_feature_names(java_changes)) :
        /\ build' = run
        /\ IF check_build(fs, run).raised
           THEN /\ fault' = "TimeoutExpired"
                /\ Exit(1)
                /\ ran' = ran \cup {"check_build", "build_tool"}
                /\ UNCHANGED <<feature_order, all_errors, output>>
           ELSE LET errors == AllErrors(fs, staged_files, run, order)
                IN  /\ feature_order' = order
                    /\ all_errors' = errors
                    /\ output' = Report(java_changes, order, errors)
                    /\ Exit(0)
                    /\ ran' = ran \cup {"check_build", "check_staged_docs"}
                              \cup (IF BuildTool(fs) # "none" THEN {"build_tool"} ELSE {})
                              \cup (IF order # <<>> THEN {"check_docs"} ELSE {})
                    /\ UNCHANGED fault
    /\ UNCHANGED <<payload, fs, git, staged_files, java_changes>>

Next == Start \/ Inspect \/ Verify

Spec == Init /\ [][Next]_vars

(* ------------------------------------------------------------------ *)
(* The classifier over composed commands                               *)
(* ------------------------------------------------------------------ *)

\* how many pieces a composed command has at most
MaxPieces == 4

CommandPieces ==
    { <<"g", "i", "t">>,
      <<"c", "o", "m", "m", "i", "t">>,
      <<" ">>,
      <<"-", "t", "r", "e", "e">>,
      <<" ", "-", "m">>,
      <<"s">>,
      <<"x", "/">> }

RECURSIVE Concat(_)
Concat(items) == IF items = <<>> THEN <<>> ELSE Head(items) \o Concat(Tail(items))

CommandPool == UNION {{Concat(c) : c \in [1..n -> CommandPieces]} : n \in 1..MaxPieces}

InitClassifier ==
    /\ pc = "start"
    /\ payload \in {[wellformed |-> TRUE, command |-> c] : c \in CommandPool}
    /\ fs = {}
    /\ InitLocals

SpecClassifier == InitClassifier /\ [][Start]_vars

(* ------------------------------------------------------------------ *)
(* Feature inference over composed Java source paths                   *)
(* ------------------------------------------------------------------ *)

\* [module/]src/main/java[/package][/package]/File.java
JavaPathPool ==
    {pre \o <<"s", "r", "c", "/", "m", "a", "i", "n", "/", "j", "a", "v", "a">> \o mid1 \o mid2 \o Slash \o file :
        pre \in {<<>>, <<"s", "e", "r", "v", "i", "c", "e", "/">>, <<"a", "p", "p", "/">>},
        mid1 \in {<<>>, <<"/", "a", "t", "t">>, <<"/", "c", "o", "n", "t", "r", "o", "l", "l", "e", "r">>, <<"/", "P", "a", "y">>},
        mid2 \in {<<>>, <<"/", "a", "t", "t">>, <<"/", "c", "o", "n", "t", "r", "o", "l", "l", "e", "r">>, <<"/", "P", "a", "y">>},
        file \in {<<"P", "a", "y", "S", "v", "c", ".", "j", "a", "v", "a">>, <<"u", "t", "i", "l", ".", "j", "a", "v", "a">>, <<"A", "t", "t", "C", "t", "l", ".", "j", "a", "v", "a">>, <<"A", ".", "j", "a", "v", "a">>}}

\* main about to verify a commit that stages one Java source file, in a
\* project directory without build descriptor and without documents
InitFeatures ==
    /\ pc = "verify"
    /\ payload = [wellformed |-> TRUE, command |-> <<"g", "i", "t">> \o <<" ">> \o <<"c", "o", "m", "m", "i", "t">>]
    /\ fs = {}
    /\ \E f \in JavaPathPool :
        /\ git = [returncode |-> 0, stdout |-> f \o <<"\n">>]
        /\ staged_files = <<f>>
        /\ java_changes = <<f>>
    /\ build = NoRun
    /\ feature_order = <<>>
    /\ all_errors = <<>>
    /\ output = <<>>
    /\ exit_status = -1
    /\ fault = "none"
    /\ ran = {"git"}

SpecFeatures == InitFeatures /\ [][Verify]_vars

(* ------------------------------------------------------------------ *)
(* What the properties speak of                                        *)
(* ------------------------------------------------------------------ *)

Terminated == pc = "exited"

\* Deny: a payload was printed; Allow: nothing was
Verdict == IF output # <<>> THEN "Deny" ELSE "Allow"

\* the report of a Deny
Reason == output[1].permissionDecisionReason

\* main got past its early exits: a qualifying Java source file is staged
Validated == java_changes # <<>>

\* an entry of all_errors that reports a failed build or a missing document
IsBlocking(entry) == entry[1] \in {"[X]", "[PAGE]", "[FOLDER]"}

HasBlocking == \E i \in 1..Len(all_errors) : IsBlocking(all_errors[i])

Staged(path) == \E i \in 1..Len(staged_files) : staged_files[i] = path

BuildRan == "build_tool" \in ran

BuildFailed == BuildRan /\ build.duration <= BuildTimeout /\ build.returncode # 0

BuildTimedOut == BuildRan /\ build.duration > BuildTimeout

BuildOkOrSkipped == ~BuildRan \/ (build.duration <= BuildTimeout /\ build.returncode = 0)

SpecDocMissing(f) == SpecPath(f) \notin fs /\ SpecPath(capitalize(f)) \notin fs

AnyDocMissing(f) == SpecDocMissing(f) \/ ArchPath(f) \notin fs \/ GuidePath(f) \notin fs

\* the entries of all_errors about feature f
FeatureEntries(f) ==
    {i \in 1..Len(all_errors) :
        /\ all_errors[i][1] = "[FOLDER]"
        /\ contains(all_errors[i], <<"'">> \o f \o <<"'">>)}

\* the documents of feature f exist and are part of the commit
DocsPresentAndStaged(f) ==
    /\ \/ SpecPath(f) \in fs /\ Staged(SpecPath(f))
       \/ SpecPath(capitalize(f)) \in fs /\ Staged(SpecPath(capitalize(f)))
    /\ ArchPath(f) \in fs /\ Staged(ArchPath(f))
    /\ GuidePath(f) \in fs /\ Staged(GuidePath(f))

(* ------------------------------------------------------------------ *)
(* Properties                                                          *)
(* ------------------------------------------------------------------ *)

\* C1: when main ends on a commit with a qualifying Java source file staged,
\* the verdict is Deny if and only if all_errors holds a Blocking entry;
\* Warning entries alone never deny.
C1_DenyIffBlocking ==
    (Terminated /\ Validated) => ((Verdict = "Deny") <=> HasBlocking)

\* C2: when git fails or lists no file, or no listed file is a qualifying Java
\* source file, main exits with status 0 and no output, whatever the project
\* directory holds, and runs neither the build nor a documentation check.
C2_NoSourceAllows ==
    (/\ Terminated
     /\ "git" \in ran
     /\ \/ git.returncode # 0
        \/ staged_files = <<>>
        \/ \A i \in 1..Len(staged_files) : ~IsJavaChange(staged_files[i]))
    => (exit_status = 0 /\ output = <<>> /\ ran = {"git"})

\* a commit that stages only the error catalog, in a project with a Gradle
\* wrapper and no documents at all
C2_Witness ==
    /\ Terminated
    /\ staged_files = <<CatalogPath>>
    /\ Gradlew \in fs
    /\ CatalogPath \notin fs
    /\ exit_status = 0 /\ output = <<>>

\* C3: with a qualifying Java source file staged and no error catalog on disk,
\* the verdict is Deny and the report names the catalog path, whichever
\* features were inferred (the build ending within its time limit).
C3_MissingCatalogDenies ==
    (Terminated /\ Validated /\ ~BuildTimedOut /\ CatalogPath \notin fs)
    => (Verdict = "Deny" /\ contains(Reason, CatalogPath))

\* C4: when the build does not end within its time limit, main still ends
\* with a verdict: Deny, with a Blocking entry, and no unhandled exception.
C4_TimeoutDenies ==
    (Terminated /\ BuildTimedOut)
    => (fault = "none" /\ exit_status = 0 /\ Verdict = "Deny" /\ HasBlocking)

\* C5: when the build tool exits non-zero, the verdict is Deny whatever the
\* documents, and the report holds the first StderrLimit characters of the
\* tool's error stream and no more of it.
C5_BuildFailureDenies ==
    (Terminated /\ BuildFailed)
    => /\ exit_status = 0
       /\ Verdict = "Deny"
       /\ LET entry == all_errors[1]
              shown == Len(entry) - 4
          IN  /\ entry[1] = "[X]"
              /\ shown <= StderrLimit
              /\ shown <= Len(build.stderr)
              /\ shown = StderrLimit \/ shown = Len(build.stderr)
              /\ \A i \in 1..shown : entry[i + 4] = build.stderr[i]
              /\ contains(Reason, entry)
              /\ Len(build.stderr) > StderrLimit => ~contains(Reason, build.stderr)

\* the build fails with an error stream longer than the limit while the
\* catalog and every document of the inferred feature exist and are staged
C5_Witness ==
    /\ Terminated
    /\ BuildFailed
    /\ Len(build.stderr) > StderrLimit
    /\ feature_order = <<FeatAtt>>
    /\ DocsPresentAndStaged(FeatAtt)
    /\ CatalogPath \in fs /\ Staged(CatalogPath)
    /\ Verdict = "Deny"

\* C6: when the build succeeds or is skipped, every inferred feature has its
\* three documents present and staged, and the error catalog is present and
\* staged, main exits with status 0 and no output.
C6_CompleteAllows ==
    (/\ Terminated
     /\ Validated
     /\ BuildOkOrSkipped
     /\ CatalogPath \in fs /\ Staged(CatalogPath)
     /\ \A f \in extract_feature_names(java_changes) : DocsPresentAndStaged(f))
    => (exit_status = 0 /\ output = <<>>)

\* a commit of feature att with its documents and the catalog, all on disk,
\* and a build that succeeds
C6_Witness ==
    /\ Terminated
    /\ Validated
    /\ BuildRan /\ BuildOkOrSkipped
    /\ feature_order = <<FeatAtt>>
    /\ DocsPresentAndStaged(FeatAtt)
    /\ CatalogPath \in fs /\ Staged(CatalogPath)
    /\ output = <<>>

\* C7: for every well-formed payload main ends with exit status 0 and without
\* an unhandled exception, having printed exactly one payload with decision
\* "deny" when it denies and nothing otherwise.
C7_AlwaysExitZero ==
    (Terminated /\ payload.wellformed)
    => /\ exit_status = 0
       /\ fault = "none"
       /\ Len(output) <= 1
       /\ \A i \in 1..Len(output) : output[i].permissionDecision = "deny"

\* the words of a command: its maximal runs of non-space characters
Words(command) == SelectSeq(split(command, " "), LAMBDA w : w # <<>>)

\* C8: a command with the word git followed by the word commit is classified
\* as a commit; a command in which commit occurs only inside a longer word is
\* not, and main then exits with status 0 having run nothing.
C8_ClassifierWholeWord ==
    (pc # "start")
    => LET w == Words(payload.command)
           git_ == <<"g", "i", "t">>
           commit_ == <<"c", "o", "m", "m", "i", "t">>
       IN  /\ (\E i \in 1..(Len(w) - 1) : w[i] = git_ /\ w[i + 1] = commit_)
                => pc = "inspect"
           /\ (contains(payload.command, commit_) /\ \A i \in 1..Len(w) : w[i] # commit_)
                => (pc = "exited" /\ exit_status = 0 /\ output = <<>> /\ ran = {})

\* the feature the two rules give for one path: the segment before the first
\* layer name at a position i > 0, else the leading capitalized word of the
\* base name, else nothing
RuleFeature(f) ==
    LET parts == split(f, "/")
        hits == {i \in 2..Len(parts) : parts[i] \in LayerNames}
    IN  IF hits # {}
        THEN {lower(parts[(CHOOSE h \in hits : \A g \in hits : h <= g) - 1])}
        ELSE LET m == LeadingCapWord(PathStem(f))
             IN  IF m # None THEN {lower(m)} ELSE {}

\* C9: the inferred features are exactly those the two rules give, file by
\* file; a file adds no feature only if neither rule yields one.
C9_FeatureRules ==
    (Terminated /\ Validated /\ fault = "none")
    => Range(feature_order) = UNION {RuleFeature(java_changes[i]) : i \in 1..Len(java_changes)}

\* C10: for each inferred feature all_errors holds one entry if a required
\* document is missing and none otherwise; the entry, and so the report,
\* names exactly the missing documents of the feature.
C10_OneEntryPerFeature ==
    (Terminated /\ "check_docs" \in ran)
    => \A f \in Range(feature_order) :
        /\ Cardinality(FeatureEntries(f)) = IF AnyDocMissing(f) THEN 1 ELSE 0
        /\ AnyDocMissing(f) => Verdict = "Deny"
        /\ \A i \in FeatureEntries(f) :
            /\ contains(all_errors[i], SpecPath(f)) <=> SpecDocMissing(f)
            /\ contains(all_errors[i], ArchPath(f)) <=> ArchPath(f) \notin fs
            /\ contains(all_errors[i], GuidePath(f)) <=> GuidePath(f) \notin fs
        /\ Verdict = "Deny" =>
            /\ contains(Reason, SpecPath(f)) <=> SpecDocMissing(f)
            /\ contains(Reason, ArchPath(f)) <=> ArchPath(f) \notin fs
            /\ contains(Reason, GuidePath(f)) <=> GuidePath(f) \notin fs

\* feature att lacks its user guide and nothing else: the commit is denied
\* and the report names the guide, not the specification or the note
C10_Witness ==
    /\ Terminated
    /\ "check_docs" \in ran
    /\ FeatAtt \in Range(feature_order)
    /\ GuidePath(FeatAtt) \notin fs
    /\ ~SpecDocMissing(FeatAtt)
    /\ ArchPath(FeatAtt) \in fs
    /\ Verdict = "Deny"
    /\ contains(Reason, GuidePath(FeatAtt))
    /\ ~contains(Reason, ArchPath(FeatAtt))

====
